---- MODULE Spec2Model ----
(***************************************************************************)
(* Model of the Argon2 password credential of synthonyx-kit                *)
(* (src/src/std/password.rs, src/src/traits/password.rs).                  *)
(*                                                                         *)
(* A credential is an Arc<Mutex<String>> cell holding one PHC string.      *)
(* Strings are sequences of tokens <<kind, n>>; a token stands for a run   *)
(* of characters ("$", "argon2id", "v=19", the parameter list, a base64    *)
(* value, a double quote, a backslash).  PHC parsing, Argon2 verification  *)
(* and the serde_json string form are computed on these sequences.         *)
(***************************************************************************)
EXTENDS Integers, Sequences, FiniteSets, TLC

VARIABLES cells, th, drawn, last

vars == <<cells, th, drawn, last>>

----------------------------------------------------------------------------
(* Bounds of the model. *)
NumPasswords == 2
NumSalts == 2
MaxCells == 2
NumThreads == 2
MaxClones == 1

Passwords == 1..NumPasswords
Salts == 1..NumSalts
Threads == 1..NumThreads
MainThreads == {1}
FirstSalt == CHOOSE s \in Salts : \A x \in Salts : s <= x
FirstPassword == CHOOSE p \in Passwords : \A x \in Passwords : p <= x

----------------------------------------------------------------------------
(* Tokens. *)
Sep == <<"$", 0>>
ARGON2ID == <<"ident", 1>>
OTHERALG == <<"ident", 2>>
V19 == <<"v=", 19>>
DEFAULTPARAMS == <<"params", 1>>
B64(n) == <<"b64", n>>
QUOTE == <<"quote", 0>>
BSLASH == <<"bslash", 0>>
NoStr == <<>>

(* Argon2id digest of a password under a salt: a function of both, with no *)
(* collisions on the modelled passwords and salts, and never the text of a *)
(* salt.                                                                   *)
Digest(pw, salt) == NumSalts + salt * NumPasswords + pw

(* hash_password's output for a given salt: "$argon2id$v=19$m=..,t=..,p=..$salt$digest" *)
PhcString(pw, salt) ==
    <<Sep, ARGON2ID, Sep, V19, Sep, DEFAULTPARAMS, Sep, B64(salt), Sep, B64(Digest(pw, salt))>>

(* Faulty variants of hash_password: the digest is computed under another  *)
(* salt than the one written into the string; every call uses one salt.    *)
hash_password_stale_salt(pw, salt) ==
    <<Sep, ARGON2ID, Sep, V19, Sep, DEFAULTPARAMS, Sep, B64(salt), Sep,
      B64(Digest(pw, salt + 1))>>

hash_password_fixed_salt(pw, salt) == PhcString(pw, FirstSalt)

hash_password(pw, salt) == PhcString(pw, salt)

----------------------------------------------------------------------------
(* PasswordHash::new: split on "$" and read the fields in order. *)
RECURSIVE SplitFrom(_, _, _)
SplitFrom(s, i, cur) ==
    IF i > Len(s) THEN <<cur>>
    ELSE IF s[i] = Sep THEN <<cur>> \o SplitFrom(s, i + 1, <<>>)
    ELSE SplitFrom(s, i + 1, Append(cur, s[i]))

Split(s) == SplitFrom(s, 1, <<>>)

Kind(f) == IF Len(f) = 1 THEN f[1][1] ELSE IF Len(f) = 0 THEN "empty" ELSE "invalid"
HasEq(f) == \E i \in 1..Len(f) : f[i][1] \in {"v=", "params"}
NoTok == <<"none", 0>>
BadHash == [ok |-> FALSE, alg |-> NoTok, version |-> NoTok, params |-> NoTok,
            salt |-> NoTok, hash |-> NoTok]

ParseFields(f) ==
    LET n == Len(f)
    IN  IF n < 2 \/ f[1] # <<>> \/ Kind(f[2]) # "ident" THEN BadHash
        ELSE
        LET hasVer == n >= 3 /\ Len(f[3]) >= 1 /\ f[3][1][1] = "v="
            verOk == hasVer => Len(f[3]) = 1
            p == IF hasVer THEN 4 ELSE 3
            hasPar == n >= p /\ HasEq(f[p])
            parOk == hasPar => Len(f[p]) = 1
            q == IF hasPar THEN p + 1 ELSE p
            hasSalt == n >= q
            saltOk == hasSalt => Kind(f[q]) \in {"b64", "ident"}
            hasHash == n >= q + 1
            hashOk == hasHash => Kind(f[q + 1]) = "b64"
            trailing == n > q + 1
        IN  IF ~verOk \/ ~parOk \/ ~saltOk \/ ~hashOk \/ trailing THEN BadHash
            ELSE [ok |-> TRUE, alg |-> f[2][1],
                  version |-> IF hasVer THEN f[3][1] ELSE NoTok,
                  params |-> IF hasPar THEN f[p][1] ELSE NoTok,
                  salt |-> IF hasSalt THEN f[q][1] ELSE NoTok,
                  hash |-> IF hasHash THEN f[q + 1][1] ELSE NoTok]

ParsePhc(s) == CHOOSE r \in {ParseFields(f) : f \in {Split(s)}} : TRUE

(* Argon2::default().verify_password(password, &parsed_hash):               *)
(* "ok" on a matching digest, "password" on a mismatch or a missing salt   *)
(* or digest, "other" when the algorithm, version or parameters are not    *)
(* Argon2's.                                                               *)
Argon2Verify(pw, ph) ==
    IF ph.salt = NoTok \/ ph.hash = NoTok THEN "password"
    ELSE IF ph.alg # ARGON2ID THEN "other"
    ELSE IF ph.version \notin {NoTok, V19} THEN "other"
    ELSE IF ph.params \notin {NoTok, DEFAULTPARAMS} THEN "other"
    ELSE IF ph.salt[1] # "b64" THEN "other"
    ELSE IF ph.hash = B64(Digest(pw, ph.salt[2])) THEN "ok"
    ELSE "password"

(* Faulty variant of IsOk: any hash that parses counts as a match. *)
IsOk_always(r) == TRUE

(* verify_password's expression ....is_ok() *)
IsOk(r) == r = "ok"

----------------------------------------------------------------------------
(* serde_json's form of a string: quoted, with quote and backslash escaped. *)
RECURSIVE Escape(_)
Escape(s) ==
    IF s = <<>> THEN <<>>
    ELSE (IF Head(s) \in {QUOTE, BSLASH} THEN <<BSLASH, Head(s)>> ELSE <<Head(s)>>)
         \o Escape(Tail(s))

SerializeStr(s) == <<QUOTE>> \o Escape(s) \o <<QUOTE>>

(* Reads the body of a JSON string up to the closing quote, which must be  *)
(* the last token.                                                         *)
RECURSIVE Unescape(_, _, _)
Unescape(j, i, acc) ==
    IF i > Len(j) THEN [ok |-> FALSE, str |-> NoStr]
    ELSE IF j[i] = QUOTE THEN
            IF i = Len(j) THEN [ok |-> TRUE, str |-> acc] ELSE [ok |-> FALSE, str |-> NoStr]
    ELSE IF j[i] = BSLASH THEN
            IF i + 1 <= Len(j) /\ j[i + 1] \in {QUOTE, BSLASH}
            THEN Unescape(j, i + 2, Append(acc, j[i + 1]))
            ELSE [ok |-> FALSE, str |-> NoStr]
    ELSE Unescape(j, i + 1, Append(acc, j[i]))

DeserializeStr(j) ==
    IF Len(j) >= 1 /\ j[1] = QUOTE THEN Unescape(j, 2, <<>>)
    ELSE [ok |-> FALSE, str |-> NoStr]

----------------------------------------------------------------------------
(* What an external store may hand back for a text it was given: the text  *)
(* itself, the text of a damaged hash string, or a text cut short.         *)
Truncate(s, k) == SubSeq(s, 1, k)
Replace(s, i, tok) == [s EXCEPT ![i] = tok]

Corruptions(s) ==
    {Truncate(s, k) : k \in 0..(Len(s) - 1)}
    \cup {Replace(s, i, OTHERALG) : i \in {k \in 1..Len(s) : s[k] = ARGON2ID}}
    \cup {Replace(s, i, B64(0)) : i \in {k \in 1..Len(s) : s[k][1] = "b64"}}
    \cup {Replace(s, i, QUOTE) : i \in 1..Len(s)}

Inputs(text) ==
    {text, Truncate(text, Len(text) - 1)}
    \cup {SerializeStr(x) : x \in Corruptions(DeserializeStr(text).str)}

----------------------------------------------------------------------------
(* State. *)
Idle == [pc |-> "idle", op |-> "none", cell |-> 0, pw |-> 0, local |-> NoStr]
NoResult == [op |-> "none", t |-> 0, cell |-> 0, pw |-> 0, kind |-> "None",
             bool |-> FALSE, str |-> NoStr, err |-> "none"]

(* Argon2Password(Arc::new(Mutex::new(s))): the string, the mutex (holder, *)
(* poison flag), the Arc's strong count; ctor, pw, orig and src record how *)
(* the credential was constructed.                                         *)
NewCell(s, ctor, pw, src) ==
    [hash |-> s, holder |-> 0, poisoned |-> FALSE, strong |-> 1,
     ctor |-> ctor, pw |-> pw, orig |-> s, src |-> src]

Ret(t, op, c, pw, kind, b, s, e) ==
    [op |-> op, t |-> t, cell |-> c, pw |-> pw, kind |-> kind, bool |-> b, str |-> s, err |-> e]

(* impl From<argon2::password_hash::Error> for PasswordError *)
FromArgon2Error == "Hashing"

(* self.0.lock().map_err(|e| PasswordError::Other(e.to_string())) *)
FromPoisonError == "Other"

CellIds == 1..Len(cells)
IsIdle(t) == th[t].pc = "idle"
At(t, pc, op) == th[t].pc = pc /\ th[t].op = op

(* Handles made by clone, over all cells. *)
RECURSIVE StrongSum(_)
StrongSum(cs) == IF cs = <<>> THEN 0 ELSE Head(cs).strong + StrongSum(Tail(cs))
Clones == StrongSum(cells) - Len(cells)

(* Dropping the MutexGuard. *)
Unlock(c) == [cells EXCEPT ![c].holder = 0]

Init ==
    /\ cells = <<>>
    /\ th = [t \in Threads |-> Idle]
    /\ drawn = {}
    /\ last = NoResult

(* Argon2Password::new: a salt from OsRng (a value it has not produced     *)
(* before), hash_password, and the hash wrapped in a new cell; or the      *)
(* error of hash_password converted to PasswordError.                      *)
New(t) ==
    /\ IsIdle(t)
    /\ Len(cells) < MaxCells
    /\ \E pw \in Passwords, salt \in Salts \ drawn, ok \in BOOLEAN :
          IF ok
          THEN /\ cells' = Append(cells, NewCell(hash_password(pw, salt), "new", pw, 0))
               /\ drawn' = drawn \cup {salt}
               /\ last' = Ret(t, "new", Len(cells) + 1, pw, "Ok", FALSE, NoStr, "none")
          ELSE /\ last' = Ret(t, "new", 0, pw, "Err", FALSE, NoStr, FromArgon2Error)
               /\ UNCHANGED <<cells, drawn>>
    /\ UNCHANGED th

(* Faulty variant of Deserialize: the imported string is hashed again as if *)
(* it were a password.                                                     *)
Deserialize_rehash(t) ==
    /\ IsIdle(t)
    /\ Len(cells) < MaxCells
    /\ last.op = "serialize" /\ last.kind = "Ok"
    /\ \E input \in Inputs(last.str), salt \in Salts \ drawn :
          LET r == DeserializeStr(input)
              pw == 1 + (Len(r.str) % NumPasswords)
          IN  IF r.ok
              THEN /\ cells' = Append(cells, NewCell(hash_password(pw, salt), "deserialize", 0,
                                        IF input = last.str THEN last.cell ELSE 0))
                   /\ drawn' = drawn \cup {salt}
                   /\ last' = Ret(t, "deserialize", Len(cells) + 1, 0, "Ok", FALSE, r.str, "none")
              ELSE /\ last' = Ret(t, "deserialize", 0, 0, "Err", FALSE, NoStr, "serde")
                   /\ UNCHANGED <<cells, drawn>>
    /\ UNCHANGED th

(* Faulty variant of Deserialize: a string that is no PHC hash is refused. *)
Deserialize_validate(t) ==
    /\ IsIdle(t)
    /\ Len(cells) < MaxCells
    /\ last.op = "serialize" /\ last.kind = "Ok"
    /\ \E input \in Inputs(last.str) :
          LET r == DeserializeStr(input)
          IN  IF r.ok /\ ParsePhc(r.str).ok
              THEN /\ cells' = Append(cells, NewCell(r.str, "deserialize", 0,
                                        IF input = last.str THEN last.cell ELSE 0))
                   /\ last' = Ret(t, "deserialize", Len(cells) + 1, 0, "Ok", FALSE, r.str, "none")
              ELSE /\ last' = Ret(t, "deserialize", 0, 0, "Err", FALSE, input, "serde")
                   /\ UNCHANGED cells
    /\ UNCHANGED <<th, drawn>>

(* Deserialize::deserialize on the text the preceding serialize call       *)
(* returned, as the store hands it back: String::deserialize, then the     *)
(* string wrapped in a new cell as it is.                                  *)
Deserialize(t) ==
    /\ IsIdle(t)
    /\ Len(cells) < MaxCells
    /\ last.op = "serialize" /\ last.kind = "Ok"
    /\ \E input \in Inputs(last.str) :
          LET r == DeserializeStr(input)
          IN  IF r.ok
              THEN /\ cells' = Append(cells, NewCell(r.str, "deserialize", 0,
                                        IF input = last.str THEN last.cell ELSE 0))
                   /\ last' = Ret(t, "deserialize", Len(cells) + 1, 0, "Ok", FALSE, r.str, "none")
              ELSE /\ last' = Ret(t, "deserialize", 0, 0, "Err", FALSE, input, "serde")
                   /\ UNCHANGED cells
    /\ UNCHANGED <<th, drawn>>

(* #[derive(Clone)]: Arc::clone, one more handle on the same cell. *)
Clone(t) ==
    /\ IsIdle(t)
    /\ \E c \in CellIds :
          /\ Clones < MaxClones
          /\ cells' = [cells EXCEPT ![c].strong = @ + 1]
    /\ last' = NoResult
    /\ UNCHANGED <<th, drawn>>

(* A thread enters verify, to_inner or serialize on a handle of cell c. *)
Call(t) ==
    /\ IsIdle(t)
    /\ \E c \in CellIds, op \in {"verify", "to_inner", "serialize"} :
       \E pw \in (IF op = "verify" THEN Passwords ELSE {0}) :
          th' = [th EXCEPT ![t] = [pc |-> "lock", op |-> op, cell |-> c, pw |-> pw,
                                   local |-> NoStr]]
    /\ last' = NoResult
    /\ UNCHANGED <<cells, drawn>>

(* verify, line 70: lock(); a poisoned mutex gives Err(Other) and the      *)
(* guard inside the PoisonError is dropped.                                *)
VerifyLock(t) ==
    /\ At(t, "lock", "verify")
    /\ LET c == th[t].cell
       IN  /\ cells[c].holder = 0
           /\ IF cells[c].poisoned
              THEN /\ th' = [th EXCEPT ![t] = Idle]
                   /\ last' = Ret(t, "verify", c, th[t].pw, "Err", FALSE, NoStr, FromPoisonError)
                   /\ UNCHANGED cells
              ELSE /\ cells' = [cells EXCEPT ![c].holder = t]
                   /\ th' = [th EXCEPT ![t].pc = "locked"]
                   /\ last' = NoResult
    /\ UNCHANGED drawn

(* Faulty variant of VerifyParse: a parse error returns without dropping   *)
(* the guard.                                                              *)
VerifyParse_leak(t) ==
    /\ At(t, "locked", "verify")
    /\ LET c == th[t].cell
           copy == cells[c].hash
       IN  IF ParsePhc(copy).ok
           THEN /\ th' = [th EXCEPT ![t].pc = "recompute", ![t].local = copy]
                /\ last' = NoResult
                /\ UNCHANGED cells
           ELSE /\ th' = [th EXCEPT ![t] = Idle]
                /\ last' = Ret(t, "verify", c, th[t].pw, "Err", FALSE, NoStr, FromArgon2Error)
                /\ UNCHANGED cells
    /\ UNCHANGED drawn

(* verify, line 71, and verify_password, line 39: the stored string is     *)
(* cloned and parsed; a parse error returns through `?` with the guard     *)
(* dropped.                                                                *)
VerifyParse(t) ==
    /\ At(t, "locked", "verify")
    /\ LET c == th[t].cell
           copy == cells[c].hash
       IN  IF ParsePhc(copy).ok
           THEN /\ th' = [th EXCEPT ![t].pc = "recompute", ![t].local = copy]
                /\ last' = NoResult
                /\ UNCHANGED cells
           ELSE /\ th' = [th EXCEPT ![t] = Idle]
                /\ cells' = Unlock(c)
                /\ last' = Ret(t, "verify", c, th[t].pw, "Err", FALSE, NoStr, FromArgon2Error)
    /\ UNCHANGED drawn

(* verify_password, line 42: Argon2 recomputes and compares; is_ok() makes *)
(* the boolean; verify returns and the guard is dropped.                   *)
VerifyRecompute(t) ==
    /\ At(t, "recompute", "verify")
    /\ LET c == th[t].cell
           b == IsOk(Argon2Verify(th[t].pw, ParsePhc(th[t].local)))
       IN  /\ th' = [th EXCEPT ![t] = Idle]
           /\ cells' = Unlock(c)
           /\ last' = Ret(t, "verify", c, th[t].pw, "Ok", b, NoStr, "none")
    /\ UNCHANGED drawn

(* to_inner and serialize, lines 82 and 93: lock().unwrap() panics on a    *)
(* poisoned mutex.                                                         *)
UnwrapLock(t) ==
    /\ th[t].pc = "lock" /\ th[t].op \in {"to_inner", "serialize"}
    /\ LET c == th[t].cell
       IN  /\ cells[c].holder = 0
           /\ IF cells[c].poisoned
              THEN /\ th' = [th EXCEPT ![t] = Idle]
                   /\ last' = Ret(t, th[t].op, c, 0, "Panic", FALSE, NoStr, "PoisonError")
                   /\ UNCHANGED cells
              ELSE /\ cells' = [cells EXCEPT ![c].holder = t]
                   /\ th' = [th EXCEPT ![t].pc = "locked"]
                   /\ last' = NoResult
    /\ UNCHANGED drawn

(* Faulty variant of ToInnerClone: the string is moved out of the cell. *)
ToInnerClone_take(t) ==
    /\ At(t, "locked", "to_inner")
    /\ LET c == th[t].cell
       IN  /\ th' = [th EXCEPT ![t] = Idle]
           /\ cells' = [cells EXCEPT ![c].holder = 0, ![c].hash = NoStr]
           /\ last' = Ret(t, "to_inner", c, 0, "Ok", FALSE, cells[c].hash, "none")
    /\ UNCHANGED drawn

(* to_inner, line 82: .clone() of the guarded string, guard dropped. *)
ToInnerClone(t) ==
    /\ At(t, "locked", "to_inner")
    /\ LET c == th[t].cell
       IN  /\ th' = [th EXCEPT ![t] = Idle]
           /\ cells' = Unlock(c)
           /\ last' = Ret(t, "to_inner", c, 0, "Ok", FALSE, cells[c].hash, "none")
    /\ UNCHANGED drawn

(* serialize, line 93: the guarded string is handed to the caller's        *)
(* serializer, which returns the text or fails.                            *)
SerializeWrite(t) ==
    /\ At(t, "locked", "serialize")
    /\ LET c == th[t].cell
       IN  /\ th' = [th EXCEPT ![t] = Idle]
           /\ cells' = Unlock(c)
           /\ \E ok \in BOOLEAN :
                 IF ok
                 THEN /\ last' = Ret(t, "serialize", c, 0, "Ok", FALSE,
                                     SerializeStr(cells[c].hash), "none")
                 ELSE /\ last' = Ret(t, "serialize", c, 0, "Err", FALSE, NoStr, "serde")
    /\ UNCHANGED drawn

(* serialize, line 93: the caller's serializer panics while the guard is   *)
(* held; unwinding drops the guard and poisons the mutex.                  *)
SerializePanic(t) ==
    /\ At(t, "locked", "serialize")
    /\ LET c == th[t].cell
       IN  /\ th' = [th EXCEPT ![t] = Idle]
           /\ cells' = [cells EXCEPT ![c].holder = 0, ![c].poisoned = TRUE]
           /\ last' = Ret(t, "serialize", c, 0, "Panic", FALSE, NoStr, "serializer")
    /\ UNCHANGED drawn

Steps(t) ==
    \/ Call(t)
    \/ VerifyLock(t)
    \/ VerifyParse(t)
    \/ VerifyRecompute(t)
    \/ UnwrapLock(t)
    \/ ToInnerClone(t)
    \/ SerializeWrite(t)

(* One caller constructing, exporting and importing credentials. *)
Next == \E t \in MainThreads : New(t) \/ Deserialize(t) \/ Steps(t)

Spec == Init /\ [][Next]_vars

(* Threads sharing one credential and its clones.  The credential was      *)
(* constructed by new, or by deserialize from a text a store handed back.  *)
Constructed ==
    {NewCell(hash_password(pw, FirstSalt), "new", pw, 0) : pw \in Passwords}
    \cup {NewCell(DeserializeStr(j).str, "deserialize", 0, 0) :
            j \in {i \in UNION {Inputs(SerializeStr(hash_password(pw, FirstSalt))) :
                                   pw \in Passwords} : DeserializeStr(i).ok}}

InitConc ==
    /\ cells \in {<<c>> : c \in Constructed}
    /\ th = [t \in Threads |-> Idle]
    /\ drawn = {FirstSalt}
    /\ last = NoResult

NextConc == \E t \in Threads : Clone(t) \/ Steps(t)

SpecConc == InitConc /\ [][NextConc]_vars

(* The same, with serializers that may panic. *)
NextFault == NextConc \/ \E t \in Threads : SerializePanic(t)

SpecFault == InitConc /\ [][NextFault]_vars

(* Fair scheduling: a thread that can take a step inside a call takes it,  *)
(* and a thread waiting in lock() gets the mutex if it is free again and   *)
(* again.  Starting a call is never forced.                                *)
Fairness ==
    \A t \in Threads :
        /\ WF_vars(VerifyParse(t) \/ VerifyRecompute(t) \/ ToInnerClone(t) \/ SerializeWrite(t))
        /\ SF_vars(VerifyLock(t) \/ UnwrapLock(t))

(* For the progress property: one credential of each kind of stored string *)
(* (a hash made by new; the same string cut after its last "$", which does *)
(* not parse; the same string without its digest, which parses).           *)
LockCells ==
    LET h == hash_password(FirstPassword, FirstSalt)
    IN  {NewCell(h, "new", FirstPassword, 0),
         NewCell(Truncate(h, Len(h) - 1), "deserialize", 0, 0),
         NewCell(Truncate(h, Len(h) - 2), "deserialize", 0, 0)}

InitLock ==
    /\ cells \in {<<c>> : c \in LockCells}
    /\ th = [t \in Threads |-> Idle]
    /\ drawn = {FirstSalt}
    /\ last = NoResult

FairSpecConc == InitLock /\ [][NextConc]_vars /\ Fairness

----------------------------------------------------------------------------
(* Properties. *)
Returned(op) == last.op = op /\ last.cell \in CellIds
OkTrue == last.kind = "Ok" /\ last.bool
OkFalse == last.kind = "Ok" /\ ~last.bool
AllIdle == \A t \in Threads : IsIdle(t)

C2_VerifyRejectsOtherPassword ==
    (Returned("verify") /\ cells[last.cell].ctor = "new" /\ last.pw # cells[last.cell].pw)
        => OkFalse

C2_Witness ==
    /\ Returned("verify") /\ cells[last.cell].ctor = "new"
    /\ last.pw # cells[last.cell].pw
    /\ OkFalse

(* C3: a verify call on a credential deserialized from a string that does  *)
(* not parse as a PHC hash returns Err(PasswordError::Verification).       *)
C3_UnparseableGivesVerificationError ==
    (Returned("verify") /\ cells[last.cell].ctor = "deserialize"
        /\ ~ParsePhc(cells[last.cell].orig).ok)
        => (last.kind = "Err" /\ last.err = "Verification")

(* C4: a credential d deserialized from the text serialize returned for a  *)
(* credential c made by new(P) holds c's string, to_inner on d returns it, *)
(* and verify(P) on d returns Ok(true).                                    *)
C4_RoundTrip ==
    \A d \in CellIds :
        LET c == cells[d].src
        IN  (c # 0 /\ cells[c].ctor = "new") =>
                /\ cells[d].hash = cells[c].hash
                /\ (Returned("to_inner") /\ last.cell = d)
                       => (last.kind = "Ok" /\ last.str = cells[c].hash)
                /\ (Returned("verify") /\ last.cell = d /\ last.pw = cells[c].pw)
                       => OkTrue

C4_Witness ==
    /\ Returned("verify") /\ cells[last.cell].ctor = "deserialize"
    /\ cells[last.cell].src # 0
    /\ cells[cells[last.cell].src].ctor = "new"
    /\ last.pw = cells[cells[last.cell].src].pw
    /\ OkTrue

(* C5: while verify recomputes the candidate's hash against a stored       *)
(* digest the mutex is no longer held by the verifying thread.             *)
C5_LockReleasedDuringRecompute ==
    \A t \in Threads :
        (th[t].pc = "recompute" /\ ParsePhc(th[t].local).hash # NoTok)
            => cells[th[t].cell].holder # t

C7_FailuresAreErrorValues ==
    /\ ~(last.kind = "Panic" /\ last.err = "PoisonError")
    /\ (Returned("verify") /\ OkFalse)
           => Argon2Verify(last.pw, ParsePhc(cells[last.cell].hash)) = "password"

(* C8: deserialize fails only on a text that is no JSON string; it stores  *)
(* the string it is given as it is, parseable or not; to_inner returns     *)
(* that string; and on a string that does not parse every verify call      *)
(* returns an error.                                                       *)
C8_ImportDoesNotValidate ==
    /\ (last.op = "deserialize" /\ last.kind = "Err") => ~DeserializeStr(last.str).ok
    /\ (Returned("deserialize") /\ last.kind = "Ok") => cells[last.cell].hash = last.str
    /\ (Returned("to_inner") /\ cells[last.cell].ctor = "deserialize")
           => (last.kind = "Ok" /\ last.str = cells[last.cell].orig)
    /\ (Returned("verify") /\ cells[last.cell].ctor = "deserialize"
           /\ ~ParsePhc(cells[last.cell].orig).ok)
           => last.kind = "Err"

C8_Witness ==
    /\ Returned("verify") /\ cells[last.cell].ctor = "deserialize"
    /\ ~ParsePhc(cells[last.cell].orig).ok
    /\ cells[last.cell].hash = cells[last.cell].orig
    /\ last.kind = "Err"

(* C9: two credentials made by new with the same password hold different   *)
(* strings, and verify with that password returns Ok(true) on each.        *)
SamePassword(c, d) ==
    /\ c # d
    /\ cells[c].ctor = "new" /\ cells[d].ctor = "new"
    /\ cells[c].pw = cells[d].pw

C9_FreshSaltPerCredential ==
    \A c, d \in CellIds :
        SamePassword(c, d) =>
            /\ cells[c].hash # cells[d].hash
            /\ (Returned("verify") /\ last.cell \in {c, d} /\ last.pw = cells[c].pw) => OkTrue

C9_Witness ==
    \E c, d \in CellIds :
        /\ c < d /\ SamePassword(c, d)
        /\ Returned("verify") /\ last.cell = d /\ last.pw = cells[c].pw
        /\ OkTrue

====
